---- MODULE Spec2Model ----
(***************************************************************************)
(* Model of email_check.py: the batch loop of main, the per-run domain     *)
(* cache, check_domain_mx, classify_smtp and the SMTP session driven by    *)
(* smtp_probe through smtplib.SMTP used as a context manager.              *)
(*                                                                         *)
(* Strings are sequences of one-character strings, so that strip, lower,   *)
(* split, rstrip, substring search and concatenation are computed.  A      *)
(* literal of the program that is only ever compared or concatenated as a  *)
(* whole (a detail token, a label) is a one-element sequence.              *)
(***************************************************************************)
EXTENDS Integers, Sequences, FiniteSets, TLC

\* ------------------------------------------------------------------ bounds

\* Longest batch of addresses given on the command line.
MaxEmails == 2

\* ----------------------------------------------------------------- strings

Whitespace == {" ", "\t", "\n", "\r"}

UpperChars ==
  <<"A","B","C","D","E","F","G","H","I","J","K","L","M",
    "N","O","P","Q","R","S","T","U","V","W","X","Y","Z">>

LowerChars ==
  <<"a","b","c","d","e","f","g","h","i","j","k","l","m",
    "n","o","p","q","r","s","t","u","v","w","x","y","z">>

DigitChars == <<"0","1","2","3","4","5","6","7","8","9">>

Range(s) == {s[i] : i \in 1..Len(s)}

Letters == Range(UpperChars) \cup Range(LowerChars)

SetMin(S) == CHOOSE x \in S : \A y \in S : x <= y

SetMax(S) == CHOOSE x \in S : \A y \in S : y <= x

\* str.lower() on one character.
ToLower(c) ==
  IF c \in Range(UpperChars)
    THEN LowerChars[CHOOSE i \in 1..Len(UpperChars) : UpperChars[i] = c]
    ELSE c

\* str.lower()
Lower(s) == [i \in 1..Len(s) |-> ToLower(s[i])]

\* str.strip(): leading and trailing whitespace removed.
Strip(s) ==
  LET keep == {i \in 1..Len(s) : s[i] \notin Whitespace}
  IN IF keep = {} THEN <<>> ELSE SubSeq(s, SetMin(keep), SetMax(keep))

\* "needle in hay" for strings.
Contains(hay, needle) ==
  \E i \in 0..(Len(hay) - Len(needle)) :
    SubSeq(hay, i + 1, i + Len(needle)) = needle

\* str.split(sep) for a one-character separator.
RECURSIVE Split(_, _)
Split(s, sep) ==
  LET at == {i \in 1..Len(s) : s[i] = sep}
  IN IF at = {} THEN <<s>>
     ELSE <<SubSeq(s, 1, SetMin(at) - 1)>>
            \o Split(SubSeq(s, SetMin(at) + 1, Len(s)), sep)

\* str.rstrip(".")
RECURSIVE RStripDot(_)
RStripDot(s) ==
  IF s # <<>> /\ s[Len(s)] = "." THEN RStripDot(SubSeq(s, 1, Len(s) - 1)) ELSE s

\* str(n) for a natural number: its decimal digits.
RECURSIVE Str(_)
Str(n) ==
  IF n < 10 THEN <<DigitChars[n + 1]>>
  ELSE Str(n \div 10) \o <<DigitChars[(n % 10) + 1]>>

\* --------------------------------------------------------------- constants

DOMAIN_VALID == "DOMAIN_VALID"

DOMAIN_ABSENT == "DOMAIN_ABSENT"

MX_INVALID == "MX_INVALID"

\* Upper bound of the final label in EMAIL_RE ({2,63}).
TldMax == 63

\* Lower bound of the final label in EMAIL_RE ({2,63}).
TldMin == 2

\* The idna codec refuses a label of 64 or more characters.
IdnaLabelLimit == 64

\* A status at or above this is a rejection of EHLO, HELO and MAIL FROM.
RejectFrom == 400

\* The reply smtplib's __exit__ expects to QUIT.
QuitOk == 221

\* The status smtplib's getreply raises with when a reply line is too long.
LineTooLongCode == 500

POLICY_KEYWORDS ==
  << <<"p","o","l","i","c","y">>,
     <<"s","p","a","m">>,
     <<"r","e","l","a","y">>,
     <<"b","l","o","c","k","e","d">>,
     <<"d","e","n","i","e","d">>,
     <<"b","l","a","c","k","l","i","s","t">>,
     <<"a","u","t","h","e","n","t","i","c","a","t","i","o","n">>,
     <<"n","o","t"," ","p","e","r","m","i","t","t","e","d">>,
     <<"a","c","c","e","s","s"," ","d","e","n","i","e","d">> >>

\* ---------------------------------------------------------- address syntax

LabelChars == Letters \cup Range(DigitChars) \cup {"-"}

\* EMAIL_RE.match: ^[^@\s]+@([A-Za-z0-9-]+\.)+[A-Za-z]{2,63}$
\* ($ also matches before one trailing newline.)
is_valid_email(email) ==
  LET s == IF email # <<>> /\ email[Len(email)] = "\n"
             THEN SubSeq(email, 1, Len(email) - 1) ELSE email
      ats == {i \in 1..Len(s) : s[i] = "@"}
  IN /\ Cardinality(ats) = 1
     /\ LET at == SetMin(ats)
            local == SubSeq(s, 1, at - 1)
            labels == Split(SubSeq(s, at + 1, Len(s)), ".")
            tld == labels[Len(labels)]
        IN /\ local # <<>>
           /\ Range(local) \cap Whitespace = {}
           /\ Len(labels) >= 2
           /\ \A k \in 1..(Len(labels) - 1) :
                labels[k] # <<>> /\ Range(labels[k]) \subseteq LabelChars
           /\ Len(tld) >= TldMin
           /\ Len(tld) <= TldMax
           /\ Range(tld) \subseteq Letters

\* extract_domain's None, and the empty string it also refuses ("not domain").
NoDomain == <<>>

\* Mutant: the encoding never fails.
IdnaEncode_NoLimit(domain) == domain

\* str.encode("idna") of an ASCII name: the name itself, or UnicodeError
\* (NoDomain here) when a label is empty or too long.
IdnaEncode(domain) ==
  LET labels == Split(domain, ".")
  IN IF /\ \A k \in 1..(Len(labels) - 1) :
             Len(labels[k]) > 0 /\ Len(labels[k]) < IdnaLabelLimit
        /\ Len(labels[Len(labels)]) < IdnaLabelLimit
       THEN domain
       ELSE NoDomain

extract_domain(email) ==
  LET ats == {i \in 1..Len(email) : email[i] = "@"}
  IN IF ats = {} THEN NoDomain
     ELSE LET domain == Lower(Strip(SubSeq(email, SetMax(ats) + 1, Len(email))))
          IN IF domain = <<>> THEN NoDomain ELSE IdnaEncode(domain)

\* ------------------------------------------------------------ DNS resolver

\* Exception classes of dnspython and what each is an instance of.
DnsBases ==
  [ NXDOMAIN                |-> {"NXDOMAIN", "DNSException", "Exception"},
    NoAnswer                |-> {"NoAnswer", "DNSException", "Exception"},
    NoNameservers           |-> {"NoNameservers", "DNSException", "Exception"},
    YXDOMAIN                |-> {"YXDOMAIN", "DNSException", "Exception"},
    Timeout                 |-> {"Timeout", "DNSException", "Exception"},
    LifetimeTimeout         |-> {"LifetimeTimeout", "Timeout", "DNSException",
                                 "Exception"},
    NoResolverConfiguration |-> {"NoResolverConfiguration", "DNSException",
                                 "Exception"},
    RuntimeError            |-> {"RuntimeError", "Exception"} ]

DnsExceptionTypes == DOMAIN DnsBases

DomainCheckResult(status, mx_hosts, detail) ==
  [status |-> status, mx_hosts |-> mx_hosts, detail |-> detail]

\* An exception that no except clause of check_domain_mx catches: it leaves
\* check_domain_mx instead of a DomainCheckResult.
Uncaught(type) == DomainCheckResult("<raised>", <<>>, <<type>>)

IsUncaught(result) == result.status = "<raised>"

\* Mutant: the ladder without its last clause, "except Exception".
DnsFailure_NoFallback(type) ==
  LET is(class) == class \in DnsBases[type]
      invalid(detail) == DomainCheckResult(MX_INVALID, <<>>, detail)
  IN IF is("NXDOMAIN") THEN DomainCheckResult(DOMAIN_ABSENT, <<>>, <<"NXDOMAIN">>)
     ELSE IF is("NoAnswer") THEN invalid(<<"no_mx_answer">>)
     ELSE IF is("NoNameservers") THEN invalid(<<"no_nameservers">>)
     ELSE IF is("YXDOMAIN") THEN invalid(<<"yx_domain">>)
     ELSE IF is("Timeout") THEN invalid(<<"dns_timeout">>)
     ELSE IF is("LifetimeTimeout") THEN invalid(<<"dns_lifetime_timeout">>)
     ELSE IF is("NoResolverConfiguration")
       THEN invalid(<<"resolver_not_configured">>)
     ELSE Uncaught(type)

\* Mutant: the NoNameservers clause returns the token of the clause above
\* it.
DnsFailure_CopiedToken(type) ==
  LET is(class) == class \in DnsBases[type]
      invalid(detail) == DomainCheckResult(MX_INVALID, <<>>, detail)
  IN IF is("NXDOMAIN") THEN DomainCheckResult(DOMAIN_ABSENT, <<>>, <<"NXDOMAIN">>)
     ELSE IF is("NoAnswer") THEN invalid(<<"no_mx_answer">>)
     ELSE IF is("NoNameservers") THEN invalid(<<"no_mx_answer">>)
     ELSE IF is("YXDOMAIN") THEN invalid(<<"yx_domain">>)
     ELSE IF is("Timeout") THEN invalid(<<"dns_timeout">>)
     ELSE IF is("LifetimeTimeout") THEN invalid(<<"dns_lifetime_timeout">>)
     ELSE IF is("NoResolverConfiguration")
       THEN invalid(<<"resolver_not_configured">>)
     ELSE invalid(<<"dns_error:", type>>)

\* The except ladder of check_domain_mx: the first clause the exception is
\* an instance of.
DnsFailure(type) ==
  LET is(class) == class \in DnsBases[type]
      invalid(detail) == DomainCheckResult(MX_INVALID, <<>>, detail)
  IN IF is("NXDOMAIN") THEN DomainCheckResult(DOMAIN_ABSENT, <<>>, <<"NXDOMAIN">>)
     ELSE IF is("NoAnswer") THEN invalid(<<"no_mx_answer">>)
     ELSE IF is("NoNameservers") THEN invalid(<<"no_nameservers">>)
     ELSE IF is("YXDOMAIN") THEN invalid(<<"yx_domain">>)
     ELSE IF is("Timeout") THEN invalid(<<"dns_timeout">>)
     ELSE IF is("LifetimeTimeout") THEN invalid(<<"dns_lifetime_timeout">>)
     ELSE IF is("NoResolverConfiguration")
       THEN invalid(<<"resolver_not_configured">>)
     ELSE invalid(<<"dns_error:", type>>)

\* The loop over the answer: (pref, host) of every record whose host is not
\* empty once the trailing dots are stripped.
RECURSIVE ParseRecords(_)
ParseRecords(answers) ==
  IF answers = <<>> THEN <<>>
  ELSE LET record == Head(answers)
           host == RStripDot(record.exchange)
           rest == ParseRecords(Tail(answers))
       IN IF host = <<>> THEN rest
          ELSE <<[pref |-> record.preference, host |-> host]>> \o rest

\* Mutant: the item goes before the items of equal key.
RECURSIVE InsertByPref_Unstable(_, _)
InsertByPref_Unstable(sorted, item) ==
  IF sorted = <<>> THEN <<item>>
  ELSE IF Head(sorted).pref < item.pref
         THEN <<Head(sorted)>> \o InsertByPref_Unstable(Tail(sorted), item)
         ELSE <<item>> \o sorted

\* Insertion of one item after every item whose key is not greater.
RECURSIVE InsertByPref(_, _)
InsertByPref(sorted, item) ==
  IF sorted = <<>> THEN <<item>>
  ELSE IF Head(sorted).pref <= item.pref
         THEN <<Head(sorted)>> \o InsertByPref(Tail(sorted), item)
         ELSE <<item>> \o sorted

\* list.sort(key=pref): ascending and stable.
RECURSIVE SortByPref(_)
SortByPref(parsed) ==
  IF parsed = <<>> THEN <<>>
  ELSE InsertByPref(SortByPref(SubSeq(parsed, 1, Len(parsed) - 1)),
                    parsed[Len(parsed)])

\* Mutant: without the test "if not parsed".
check_domain_mx_NoEmptyCheck(outcome) ==
  IF outcome.kind # "answer" THEN DnsFailure(outcome.kind)
  ELSE LET sorted == SortByPref(ParseRecords(outcome.records))
       IN DomainCheckResult(DOMAIN_VALID,
                            [k \in 1..Len(sorted) |-> sorted[k].host],
                            <<"mx_ok">>)

\* check_domain_mx on what resolver.resolve(domain, "MX") did: an answer
\* (kind "answer", its records in answer order) or a raised exception.
check_domain_mx(outcome) ==
  IF outcome.kind # "answer" THEN DnsFailure(outcome.kind)
  ELSE LET parsed == ParseRecords(outcome.records)
       IN IF parsed = <<>>
            THEN DomainCheckResult(MX_INVALID, <<>>,
                                   <<"mx_records_invalid_or_empty">>)
            ELSE LET sorted == SortByPref(parsed)
                 IN DomainCheckResult(DOMAIN_VALID,
                                      [k \in 1..Len(sorted) |-> sorted[k].host],
                                      <<"mx_ok">>)

\* ------------------------------------------------------- response classifier

\* any(keyword in lowered for keyword in POLICY_KEYWORDS)
HasPolicyKeyword(lowered) ==
  \E k \in 1..Len(POLICY_KEYWORDS) : Contains(lowered, POLICY_KEYWORDS[k])

\* Mutant: the keywords are looked for in the message as it came, not in
\* its lower-cased form.
classify_smtp_CaseSensitive(code, message) ==
  IF code \in {250, 251} THEN "exists_likely"
  ELSE IF code \in {550, 551, 553}
    THEN (IF HasPolicyKeyword(message) THEN "server_blocked" ELSE "not_exists")
  ELSE IF code \in {421, 450, 451, 452} THEN "temp_fail"
  ELSE "server_blocked"

\* Mutant: the keyword test comes first, before the tests of the code.
classify_smtp_KeywordFirst(code, message) ==
  IF HasPolicyKeyword(Lower(message)) THEN "server_blocked"
  ELSE IF code \in {250, 251} THEN "exists_likely"
  ELSE IF code \in {550, 551, 553} THEN "not_exists"
  ELSE IF code \in {421, 450, 451, 452} THEN "temp_fail"
  ELSE "server_blocked"

classify_smtp(code, message) ==
  LET lowered == Lower(message)
  IN IF code \in {250, 251} THEN "exists_likely"
     ELSE IF code \in {550, 551, 553}
       THEN (IF HasPolicyKeyword(lowered) THEN "server_blocked" ELSE "not_exists")
     ELSE IF code \in {421, 450, 451, 452} THEN "temp_fail"
     ELSE IF code \in {530, 535, 554} THEN "server_blocked"
     ELSE IF HasPolicyKeyword(lowered) THEN "server_blocked"
     ELSE "server_blocked"

\* A byte that is not valid UTF-8, and what errors="replace" makes of it.
BadByte == "<FF>"

ReplacementChar == "<U+FFFD>"

\* _decode_smtp_message: decode with replacement, then strip.
_decode_smtp_message(message) ==
  Strip([k \in 1..Len(message) |->
           IF message[k] = BadByte THEN ReplacementChar ELSE message[k]])

SmtpCheckResult(result, code, detail) ==
  [result |-> result, code |-> code, detail |-> detail]

\* The "-" that stands for "no SMTP status was observed".
NoCode == <<"-">>

\* ------------------------------------------------------- SMTP exceptions

\* Exception classes smtplib and the socket layer raise, and what each is an
\* instance of.  smtplib.SMTPException derives from OSError.
SmtpBases ==
  [ ConnectionRefusedError |-> {"ConnectionRefusedError", "ConnectionError",
                                "OSError", "Exception"},
    TimeoutError           |-> {"TimeoutError", "OSError", "Exception"},
    gaierror               |-> {"gaierror", "OSError", "Exception"},
    SMTPServerDisconnected |-> {"SMTPServerDisconnected", "SMTPException",
                                "OSError", "Exception"},
    SMTPConnectError       |-> {"SMTPConnectError", "SMTPResponseException",
                                "SMTPException", "OSError", "Exception"},
    SMTPResponseException  |-> {"SMTPResponseException", "SMTPException",
                                "OSError", "Exception"},
    SMTPRecipientsRefused  |-> {"SMTPRecipientsRefused", "SMTPException",
                                "OSError", "Exception"},
    UnicodeEncodeError     |-> {"UnicodeEncodeError", "UnicodeError",
                                "ValueError", "Exception"},
    ValueError             |-> {"ValueError", "Exception"} ]

\* An exception: its class, smtp_code and smtp_error (SMTPResponseException)
\* and recipients (SMTPRecipientsRefused: address, status, message).
Exc(type, code, error, recipients) ==
  [type |-> type, smtp_code |-> code, smtp_error |-> error,
   recipients |-> recipients]

PlainExc(type) == Exc(type, 0, <<>>, {})

IsInstance(exc, classes) == SmtpBases[exc.type] \cap classes # {}

\* Mutant: the SMTPResponseException clause is tried before the clauses
\* for connection errors.
HandlerClause_ResponseFirst(exc) ==
  IF IsInstance(exc, {"SMTPRecipientsRefused"}) THEN "recipients_refused"
  ELSE IF IsInstance(exc, {"SMTPResponseException"}) THEN "response"
  ELSE IF IsInstance(exc, {"SMTPConnectError", "SMTPServerDisconnected"})
    THEN "disconnected"
  ELSE IF IsInstance(exc, {"TimeoutError", "ConnectionRefusedError", "OSError"})
    THEN "os_error"
  ELSE IF IsInstance(exc, {"UnicodeEncodeError"}) THEN "encoding"
  ELSE "fallback"

\* The except clause of smtp_probe that catches exc: the first, in source
\* order, whose classes exc is an instance of.
HandlerClause(exc) ==
  IF IsInstance(exc, {"SMTPRecipientsRefused"}) THEN "recipients_refused"
  ELSE IF IsInstance(exc, {"SMTPConnectError", "SMTPServerDisconnected"})
    THEN "disconnected"
  ELSE IF IsInstance(exc, {"TimeoutError", "ConnectionRefusedError", "OSError"})
    THEN "os_error"
  ELSE IF IsInstance(exc, {"SMTPResponseException"}) THEN "response"
  ELSE IF IsInstance(exc, {"UnicodeEncodeError"}) THEN "encoding"
  ELSE "fallback"

\* exc.recipients.get(email)
Refused(exc, email) == {r \in exc.recipients : r.addr = email}

\* Whether the clause that catches exc calls classify_smtp.
HandlerClassifies(exc, email) ==
  \/ HandlerClause(exc) = "recipients_refused" /\ Refused(exc, email) # {}
  \/ HandlerClause(exc) = "response"

\* Mutant: the clause for connection errors reports the status the
\* exception carries, when it carries one.
Handler_ConnectCode(exc, email) ==
  LET clause == HandlerClause(exc)
  IN IF clause = "recipients_refused"
       THEN IF Refused(exc, email) # {}
              THEN LET refused == CHOOSE r \in Refused(exc, email) : TRUE
                       decoded == _decode_smtp_message(refused.msg)
                   IN SmtpCheckResult(classify_smtp(refused.code, decoded),
                                      Str(refused.code), decoded)
              ELSE SmtpCheckResult("server_blocked", NoCode,
                                   <<"recipients_refused">>)
     ELSE IF clause \in {"disconnected", "os_error"}
       THEN SmtpCheckResult("connection_error",
                            IF exc.smtp_code > 0 THEN Str(exc.smtp_code)
                                                 ELSE NoCode,
                            <<exc.type>>)
     ELSE IF clause = "response"
       THEN LET decoded == _decode_smtp_message(exc.smtp_error)
            IN SmtpCheckResult(classify_smtp(exc.smtp_code, decoded),
                               Str(exc.smtp_code), decoded)
     ELSE IF clause = "encoding"
       THEN SmtpCheckResult("server_blocked", NoCode, <<"email_encoding_error">>)
     ELSE SmtpCheckResult("server_blocked", NoCode, <<"smtp_error:", exc.type>>)

\* What smtp_probe returns from the except clause that catches exc.
Handler(exc, email) ==
  LET clause == HandlerClause(exc)
  IN IF clause = "recipients_refused"
       THEN IF Refused(exc, email) # {}
              THEN LET refused == CHOOSE r \in Refused(exc, email) : TRUE
                       decoded == _decode_smtp_message(refused.msg)
                   IN SmtpCheckResult(classify_smtp(refused.code, decoded),
                                      Str(refused.code), decoded)
              ELSE SmtpCheckResult("server_blocked", NoCode,
                                   <<"recipients_refused">>)
     ELSE IF clause \in {"disconnected", "os_error"}
       THEN SmtpCheckResult("connection_error", NoCode, <<exc.type>>)
     ELSE IF clause = "response"
       THEN LET decoded == _decode_smtp_message(exc.smtp_error)
            IN SmtpCheckResult(classify_smtp(exc.smtp_code, decoded),
                               Str(exc.smtp_code), decoded)
     ELSE IF clause = "encoding"
       THEN SmtpCheckResult("server_blocked", NoCode, <<"email_encoding_error">>)
     ELSE SmtpCheckResult("server_blocked", NoCode, <<"smtp_error:", exc.type>>)

\* ------------------------------------------------------------------ inputs

\* A character outside ASCII (it cannot be encoded into an SMTP command).
NonAscii == {"<E9>"}

LongLabel == [k \in 1..IdnaLabelLimit |-> "a"]

\* Addresses of the command line: two of one domain that differ in case and
\* padding, one of another domain with a local part outside ASCII, one with
\* no "@" and a trailing blank, and one whose domain label is too long for
\* IDNA.
EmailPool ==
  { <<"u","@","a",".","c","c">>,
    <<" ","v","@","A",".","C","C">>,
    <<"<E9>","@","b",".","c","c">>,
    <<"u","a",".","c","c"," ">>,
    <<"u","@">> \o LongLabel \o <<".","c","c">> }

Mx(preference, exchange) == [preference |-> preference, exchange |-> exchange]

Host1 == <<"m","1">>

Host2 == <<"m","2">>

\* Answers of the resolver: one record; two records out of order; two
\* records of equal preference; the null MX alone.
DnsAnswers ==
  { << Mx(10, Host1 \o <<".">>) >>,
    << Mx(20, Host2), Mx(10, Host1 \o <<".">>) >>,
    << Mx(10, Host2 \o <<".">>), Mx(10, Host1 \o <<".">>) >>,
    << Mx(0, <<".">>) >> }

\* The exceptions resolver.resolve is made to raise here.
DnsRaised == {"NXDOMAIN", "NoAnswer", "LifetimeTimeout", "RuntimeError"}

\* What one call of resolver.resolve can do.
DnsOutcomes ==
  {[kind |-> "answer", records |-> a] : a \in DnsAnswers}
    \cup {[kind |-> t, records |-> <<>>] : t \in DnsRaised}

Reply(code, msg) == [code |-> code, msg |-> msg]

NoReply == Reply(0, <<>>)

\* Replies of the server to EHLO, HELO, MAIL FROM and RCPT TO: an
\* acceptance, a rejection at the threshold with an empty message, a
\* temporary failure, and a 550 with and without a policy keyword (in mixed
\* case, after a blank).
Replies ==
  { Reply(250, <<"O","K">>),
    Reply(400, <<>>),
    Reply(450, <<"W","a","i","t">>),
    Reply(550, <<" ","S","p","a","m">>),
    Reply(550, <<"G","o","n","e">>) }

\* Replies of the server to QUIT.
QuitReplies == {Reply(QuitOk, <<"B","y","e">>), Reply(250, <<"O","K">>)}

\* What the transport can raise while a command waits for its reply:
\* any socket error becomes SMTPServerDisconnected (send, getreply), an
\* overlong reply line becomes SMTPResponseException(500).
CommandFailures ==
  { PlainExc("SMTPServerDisconnected"),
    Exc("SMTPResponseException", LineTooLongCode, <<"Line too long.">>, {}) }

\* What smtplib.SMTP(host, port, timeout) can raise.
ConnectFailures ==
  { PlainExc("ConnectionRefusedError"), PlainExc("TimeoutError"),
    PlainExc("gaierror"), PlainExc("SMTPServerDisconnected"),
    PlainExc("ValueError"),
    Exc("SMTPConnectError", 554, <<"B","u","s","y">>, {}) }

\* ------------------------------------------------------------------- state

VARIABLES
  emails,        \* args.emails
  i,             \* position of the for loop of main, from 1
  pc,            \* main | connect | ehlo | helo | mail | rcpt | exit |
                 \* row | done | crashed; classify | classified; resolve |
                 \* resolved; post | returned | raised; split | chunked
  domain_cache,  \* domain -> DomainCheckResult
  rows,          \* the report rows appended so far
  exit_code,     \* exit status of main; -1 while it runs
  cur,           \* the address being probed: email, its domain_result, primary_mx
  smtp,          \* the smtplib.SMTP object: sock (open or not), cmds sent
  pending,       \* how the with block ends: return value or exception
  smtp_result,   \* what smtp_probe returned
  probe,         \* replies the server gave during this probe
  classified,    \* calls of classify_smtp made by this probe
  domains,       \* the domain main extracted for each address passed so
                 \* far: NoDomain for a malformed address or domain
  resolved,      \* domains given to resolver.resolve, in order
  dns_seen,      \* domain -> what resolver.resolve did for it
  calls,         \* positions of the addresses smtp_probe was called for
  sessions,      \* SMTP connections attempted: position and host
  sender         \* send_text.py: the call of send_chunk_with_retry or of
                 \* split_into_chunks under way

vars ==
  <<emails, i, pc, domain_cache, rows, exit_code, cur, smtp, pending,
    smtp_result, probe, classified, domains, resolved, dns_seen, calls,
    sessions, sender>>

NoCur == [email |-> <<>>, domain_result |-> DomainCheckResult("", <<>>, <<>>),
          primary_mx |-> <<>>]

NoSession == [sock |-> FALSE, cmds |-> <<>>]

NoPending == [kind |-> "none", value |-> SmtpCheckResult("", <<>>, <<>>),
              exc |-> PlainExc("")]

Returning(value) == [kind |-> "return", value |-> value, exc |-> PlainExc("")]

Raising(exc) ==
  [kind |-> "raise", value |-> SmtpCheckResult("", <<>>, <<>>), exc |-> exc]

NoResult == SmtpCheckResult("", <<>>, <<>>)

\* ehlo: status of the EHLO reply; last: the last command answered and its
\* reply; failed: the step at which the transport failed.
NoProbe == [ehlo |-> 0, last |-> "", reply |-> NoReply, failed |-> ""]

EmptyMap == [d \in {} |-> 0]

\* What telegram_api_post did: kind is "ok" (it returned), "api" (it raised
\* TelegramAPIError with status_code and retry_after), "network" (it raised
\* NetworkError) or "other" (an exception of another class left it).
PostOutcome(kind, status_code, retry_after) ==
  [kind |-> kind, status_code |-> status_code, retry_after |-> retry_after]

\* retry_after of a TelegramAPIError that carries none.
None == -1

NoOutcome == PostOutcome("none", 0, None)

\* No call of send_chunk_with_retry: attempt counts the calls of
\* telegram_api_post, last is what the latest did, delays are the sleeps
\* taken, result is the value returned, raised the exception that left.
\* No call of split_into_chunks: text and limit are its arguments,
\* remaining and chunks its locals.
NoSender ==
  [max_retries |-> 0, attempt |-> 0, last |-> NoOutcome, delays |-> <<>>,
   result |-> 0, raised |-> NoOutcome,
   text |-> <<>>, limit |-> 0, remaining |-> <<>>, chunks |-> <<>>]

Init ==
  /\ emails \in UNION {[1..n -> EmailPool] : n \in 1..MaxEmails}
  /\ i = 1
  /\ pc = "main"
  /\ domain_cache = EmptyMap
  /\ rows = <<>>
  /\ exit_code = -1
  /\ cur = NoCur
  /\ smtp = NoSession
  /\ pending = NoPending
  /\ smtp_result = NoResult
  /\ probe = NoProbe
  /\ classified = 0
  /\ domains = <<>>
  /\ resolved = <<>>
  /\ dns_seen = EmptyMap
  /\ calls = <<>>
  /\ sessions = <<>>
  /\ sender = NoSender

\* -------------------------------------------------------------------- main

Row(email, domain_status, result, code, details) ==
  [email |-> email, domain_status |-> domain_status, smtp_result |-> result,
   smtp_code |-> code, details |-> details]

\* Mutant: a domain whose lookup did not give "valid" is looked up again.
CacheMiss_RetryFailed(cache, domain) ==
  domain \notin DOMAIN cache \/ cache[domain].status # DOMAIN_VALID

\* "domain not in domain_cache"
CacheMiss(cache, domain) == domain \notin DOMAIN cache

\* cache[domain] = result
CachePut(cache, domain, result) ==
  [d \in (DOMAIN cache) \cup {domain} |->
     IF d = domain THEN result ELSE cache[d]]

\* Mutant: the probe is run only when a second exchanger exists.
ShouldProbe_OnlySeveral(domain_result) ==
  domain_result.status = DOMAIN_VALID /\ Len(domain_result.mx_hosts) > 1

\* "domain_result.status == DOMAIN_VALID"
ShouldProbe(domain_result) == domain_result.status = DOMAIN_VALID

\* Mutant: the last exchanger of the list instead of the first.
PrimaryMx_Last(domain_result) ==
  domain_result.mx_hosts[Len(domain_result.mx_hosts)]

\* "domain_result.mx_hosts[0]"
PrimaryMx(domain_result) == domain_result.mx_hosts[1]

\* One pass of the for loop of main up to the call of smtp_probe: the row of
\* an address that is not probed is appended here.
MainStep ==
  /\ pc = "main"
  /\ i <= Len(emails)
  /\ LET normalized_email == Strip(emails[i])
         domain == extract_domain(normalized_email)
     IN IF ~is_valid_email(normalized_email) \/ domain = NoDomain
          THEN /\ domains' = Append(domains, NoDomain)
               /\ rows' = Append(rows,
                           Row(normalized_email, MX_INVALID, "skipped", NoCode,
                               IF ~is_valid_email(normalized_email)
                                 THEN <<"invalid_email_format">>
                                 ELSE <<"invalid_domain">>))
               /\ i' = i + 1
               /\ UNCHANGED <<pc, domain_cache, cur, resolved, dns_seen, calls,
                              exit_code>>
          ELSE \E outcome \in DnsOutcomes :
                 LET miss == CacheMiss(domain_cache, domain)
                     fresh == check_domain_mx(outcome)
                     cache == IF miss THEN CachePut(domain_cache, domain, fresh)
                                      ELSE domain_cache
                     domain_result == cache[domain]
                 IN IF miss /\ IsUncaught(fresh)
                      THEN \* the exception leaves main: traceback, status 1
                           /\ pc' = "crashed"
                           /\ exit_code' = 1
                           /\ resolved' = Append(resolved, domain)
                           /\ domains' = Append(domains, domain)
                           /\ UNCHANGED <<domain_cache, rows, i, cur, dns_seen,
                                          calls>>
                      ELSE
                    /\ domain_cache' = cache
                    /\ domains' = Append(domains, domain)
                    /\ resolved' = IF miss THEN Append(resolved, domain)
                                           ELSE resolved
                    /\ dns_seen' = IF miss THEN CachePut(dns_seen, domain, outcome)
                                           ELSE dns_seen
                    /\ exit_code' = exit_code
                    /\ IF ShouldProbe(domain_result)
                         THEN /\ cur' = [email |-> normalized_email,
                                         domain_result |-> domain_result,
                                         primary_mx |-> PrimaryMx(domain_result)]
                              /\ calls' = Append(calls, i)
                              /\ pc' = "connect"
                              /\ UNCHANGED <<rows, i>>
                         ELSE /\ rows' = Append(rows,
                                          Row(normalized_email,
                                              domain_result.status, "skipped",
                                              NoCode, domain_result.detail))
                              /\ i' = i + 1
                              /\ UNCHANGED <<pc, cur, calls>>
  /\ UNCHANGED <<emails, smtp, pending, smtp_result, probe, classified,
                 sessions>>
  /\ UNCHANGED sender

\* print(format_table(rows, columns)); return 0
Finish ==
  /\ pc = "main"
  /\ i > Len(emails)
  /\ pc' = "done"
  /\ exit_code' = 0
  /\ UNCHANGED <<emails, i, domain_cache, rows, cur, smtp, pending,
                 smtp_result, probe, classified, domains, resolved, dns_seen, calls,
                 sessions>>
  /\ UNCHANGED sender

\* -------------------------------------------------------------- smtp_probe

\* Failures of the transport, as against replies of the server.
TransportErrors ==
  {"ConnectionRefusedError", "TimeoutError", "gaierror",
   "SMTPServerDisconnected", "SMTPConnectError"}

\* What smtp_probe returns: the value the with block returned, or the value
\* of the except clause that catches what was raised.
ProbeResult(pend, email) ==
  IF pend.kind = "return" THEN pend.value ELSE Handler(pend.exc, email)

\* smtp_probe returns, having ended with pend.
ProbeReturns(pend) ==
  /\ pending' = pend
  /\ smtp_result' = ProbeResult(pend, cur.email)
  /\ classified' = IF pend.kind = "raise"
                      /\ HandlerClassifies(pend.exc, cur.email)
                     THEN classified + 1 ELSE classified
  /\ pc' = "row"

\* smtplib.SMTP(host=mx_host, port=25, timeout=timeout): the greeting is
\* 220 and the session is open, or the constructor raises, the with block
\* is never entered and smtp_probe returns from an except clause.
Connect ==
  /\ pc = "connect"
  /\ sessions' = Append(sessions, [pos |-> i, host |-> cur.primary_mx])
  /\ \/ /\ smtp' = [sock |-> TRUE, cmds |-> <<>>]
        /\ pc' = "ehlo"
        /\ UNCHANGED <<pending, probe, smtp_result, classified>>
     \/ \E exc \in ConnectFailures :
          /\ ProbeReturns(Raising(exc))
          /\ probe' = [probe EXCEPT
                         !.failed = IF exc.type \in TransportErrors
                                      THEN "connect" ELSE @]
          /\ UNCHANGED smtp
  /\ UNCHANGED <<emails, i, domain_cache, rows, exit_code, cur, domains, resolved,
                 dns_seen, calls>>
  /\ UNCHANGED sender

\* A command whose reply does not arrive: smtplib closes the socket and
\* raises; the exception leaves the with block.
CommandFails(cmd, exc) ==
  /\ smtp' = [sock |-> FALSE, cmds |-> Append(smtp.cmds, cmd)]
  /\ pending' = Raising(exc)
  /\ probe' = [probe EXCEPT
                 !.failed = IF exc.type \in TransportErrors THEN cmd ELSE @]
  /\ pc' = "exit"
  /\ UNCHANGED classified

\* A command the server answers.
Answered(cmd, reply) ==
  /\ smtp' = [smtp EXCEPT !.cmds = Append(@, cmd)]
  /\ probe' = [probe EXCEPT !.last = cmd, !.reply = reply,
                            !.ehlo = IF cmd = "ehlo" THEN reply.code ELSE @]

\* "code >= 400" after EHLO, HELO and MAIL FROM
Rejected(code) == code >= RejectFrom

\* smtp.ehlo()
Ehlo ==
  /\ pc = "ehlo"
  /\ \/ \E reply \in Replies :
          /\ Answered("ehlo", reply)
          /\ pc' = IF Rejected(reply.code) THEN "helo" ELSE "mail"
          /\ UNCHANGED <<pending, classified>>
     \/ \E exc \in CommandFailures : CommandFails("ehlo", exc)
  /\ UNCHANGED <<emails, i, domain_cache, rows, exit_code, cur, smtp_result,
                 domains, resolved, dns_seen, calls, sessions>>
  /\ UNCHANGED sender

\* What smtp_probe returns when HELO is rejected too.
HeloRejected(reply) ==
  SmtpCheckResult("server_blocked", Str(reply.code),
                  <<"helo_rejected:">> \o _decode_smtp_message(reply.msg))

\* smtp.helo(), after a rejected EHLO
Helo ==
  /\ pc = "helo"
  /\ \/ \E reply \in Replies :
          /\ Answered("helo", reply)
          /\ IF Rejected(reply.code)
               THEN pending' = Returning(HeloRejected(reply)) /\ pc' = "exit"
               ELSE pc' = "mail" /\ UNCHANGED pending
          /\ UNCHANGED classified
     \/ \E exc \in CommandFailures : CommandFails("helo", exc)
  /\ UNCHANGED <<emails, i, domain_cache, rows, exit_code, cur, smtp_result,
                 domains, resolved, dns_seen, calls, sessions>>
  /\ UNCHANGED sender

\* What smtp_probe returns when MAIL FROM is rejected.
MailRejected(reply) ==
  LET decoded == _decode_smtp_message(reply.msg)
  IN SmtpCheckResult(classify_smtp(reply.code, decoded), Str(reply.code),
                     <<"mail_from_rejected:">> \o decoded)

\* smtp.mail("check@local.test")
Mail ==
  /\ pc = "mail"
  /\ \/ \E reply \in Replies :
          /\ Answered("mail", reply)
          /\ IF Rejected(reply.code)
               THEN /\ pending' = Returning(MailRejected(reply))
                    /\ classified' = classified + 1
                    /\ pc' = "exit"
               ELSE pc' = "rcpt" /\ UNCHANGED <<pending, classified>>
     \/ \E exc \in CommandFailures : CommandFails("mail", exc)
  /\ UNCHANGED <<emails, i, domain_cache, rows, exit_code, cur, smtp_result,
                 domains, resolved, dns_seen, calls, sessions>>
  /\ UNCHANGED sender

\* What smtp_probe returns from the reply to RCPT TO.
RcptAnswered(reply) ==
  LET decoded == _decode_smtp_message(reply.msg)
  IN SmtpCheckResult(classify_smtp(reply.code, decoded), Str(reply.code),
                     IF decoded = <<>> THEN <<"rcpt_response_empty">>
                                       ELSE decoded)

\* Mutant: RCPT TO is sent once more after a temporary failure.
Rcpt_RetryTemp ==
  /\ pc = "rcpt"
  /\ IF Range(cur.email) \cap NonAscii # {}
       THEN /\ pending' = Raising(PlainExc("UnicodeEncodeError"))
            /\ pc' = "exit"
            /\ UNCHANGED <<smtp, probe, classified>>
       ELSE \/ \E reply \in Replies :
                 /\ Answered("rcpt", reply)
                 /\ IF reply.code = 450 /\ "rcpt" \notin Range(smtp.cmds)
                      THEN pc' = "rcpt" /\ UNCHANGED <<pending, classified>>
                      ELSE /\ pending' = Returning(RcptAnswered(reply))
                           /\ classified' = classified + 1
                           /\ pc' = "exit"
            \/ \E exc \in CommandFailures : CommandFails("rcpt", exc)
  /\ UNCHANGED <<emails, i, domain_cache, rows, exit_code, cur, smtp_result,
                 domains, resolved, dns_seen, calls, sessions>>
  /\ UNCHANGED sender

\* smtp.rcpt(email): an address outside ASCII cannot be encoded into the
\* command, which is then not sent.
Rcpt ==
  /\ pc = "rcpt"
  /\ IF Range(cur.email) \cap NonAscii # {}
       THEN /\ pending' = Raising(PlainExc("UnicodeEncodeError"))
            /\ pc' = "exit"
            /\ UNCHANGED <<smtp, probe, classified>>
       ELSE \/ \E reply \in Replies :
                 /\ Answered("rcpt", reply)
                 /\ pending' = Returning(RcptAnswered(reply))
                 /\ classified' = classified + 1
                 /\ pc' = "exit"
            \/ \E exc \in CommandFailures : CommandFails("rcpt", exc)
  /\ UNCHANGED <<emails, i, domain_cache, rows, exit_code, cur, smtp_result,
                 domains, resolved, dns_seen, calls, sessions>>
  /\ UNCHANGED sender

\* The address of another recipient.
OtherAddress == <<"w","@","a",".","c","c">>

\* SMTPRecipientsRefused as a transport raises it for a recipient the server
\* rejected: recipients maps an address to its (status, message).
RecipientsRefused(addr, reply) ==
  Exc("SMTPRecipientsRefused", 0, <<>>,
      {[addr |-> addr, code |-> reply.code, msg |-> reply.msg]})

\* smtp.rcpt(email) with a transport that reports the rejection of the
\* recipient by raising SMTPRecipientsRefused instead of returning the
\* reply: the session stays open and the exception leaves the with block.
\* (smtplib's own rcpt returns the reply; only its sendmail raises this.)
RcptRefused ==
  /\ pc = "rcpt"
  /\ Range(cur.email) \cap NonAscii = {}
  /\ \E reply \in {r \in Replies : r.code \notin {250, 251}},
        addr \in {cur.email, OtherAddress} :
       /\ Answered("rcpt", reply)
       /\ pending' = Raising(RecipientsRefused(addr, reply))
  /\ pc' = "exit"
  /\ UNCHANGED <<emails, i, domain_cache, rows, exit_code, cur, smtp_result,
                 classified, domains, resolved, dns_seen, calls, sessions>>
  /\ UNCHANGED sender

\* Mutant: close() after the try statement instead of in its finally
\* clause, so that an exception raised for the reply to QUIT skips it.
SockAfterExit_NoFinally(quitRaised) == quitRaised

\* The socket after SMTP.__exit__: close() is in its finally clause.
SockAfterExit(quitRaised) == FALSE

\* How the with block ends once QUIT got this reply: a reply other than 221
\* raises SMTPResponseException in place of what the block was ending with.
AfterQuit(pend, reply) ==
  IF reply.code # QuitOk
    THEN Raising(Exc("SMTPResponseException", reply.code, reply.msg, {}))
    ELSE pend

\* The with block is left: SMTP.__exit__ sends QUIT on an open socket;
\* SMTPServerDisconnected (a closed socket, a failed send, a reply that does
\* not arrive) is swallowed; the socket is closed; smtp_probe returns.
SessionExit ==
  /\ pc = "exit"
  /\ IF smtp.sock
       THEN \/ \E reply \in QuitReplies :
                 /\ ProbeReturns(AfterQuit(pending, reply))
                 /\ smtp' = [sock |-> SockAfterExit(reply.code # QuitOk),
                             cmds |-> Append(smtp.cmds, "quit")]
                 /\ UNCHANGED probe
            \/ /\ ProbeReturns(pending)
               /\ smtp' = [sock |-> SockAfterExit(FALSE),
                           cmds |-> Append(smtp.cmds, "quit")]
               /\ probe' = [probe EXCEPT
                              !.failed = IF @ = "" THEN "quit" ELSE @]
       ELSE ProbeReturns(pending) /\ UNCHANGED <<smtp, probe>>
  /\ UNCHANGED <<emails, i, domain_cache, rows, exit_code, cur, domains, resolved,
                 dns_seen, calls, sessions>>
  /\ UNCHANGED sender

\* main fills the row from smtp_result and appends it.
AppendRow ==
  /\ pc = "row"
  /\ rows' = Append(rows,
               Row(cur.email, cur.domain_result.status, smtp_result.result,
                   smtp_result.code,
                   <<"mx:">> \o cur.primary_mx \o <<"; ">> \o smtp_result.detail))
  /\ i' = i + 1
  /\ pc' = "main"
  /\ cur' = NoCur
  /\ smtp' = NoSession
  /\ pending' = NoPending
  /\ smtp_result' = NoResult
  /\ probe' = NoProbe
  /\ classified' = 0
  /\ UNCHANGED <<emails, domain_cache, exit_code, domains, resolved, dns_seen, calls,
                 sessions>>
  /\ UNCHANGED sender

Next ==
  \/ MainStep
  \/ Finish
  \/ Connect
  \/ Ehlo
  \/ Helo
  \/ Mail
  \/ Rcpt
  \/ SessionExit
  \/ AppendRow

Spec == Init /\ [][Next]_vars

\* main with a transport that raises SMTPRecipientsRefused from rcpt.
NextRefused ==
  \/ MainStep
  \/ Finish
  \/ Connect
  \/ Ehlo
  \/ Helo
  \/ Mail
  \/ Rcpt
  \/ RcptRefused
  \/ SessionExit
  \/ AppendRow

SpecRefused == Init /\ [][NextRefused]_vars

\* ------------------------------------------------- classify_smtp by itself

\* str.upper() on one character.
ToUpper(c) ==
  IF c \in Range(LowerChars)
    THEN UpperChars[CHOOSE k \in 1..Len(LowerChars) : LowerChars[k] = c]
    ELSE c

\* A word in capitals, and with every other letter in capitals.
Upper(s) == [k \in 1..Len(s) |-> ToUpper(s[k])]

Alternate(s) == [k \in 1..Len(s) |-> IF k % 2 = 1 THEN ToUpper(s[k]) ELSE s[k]]

\* Status codes given to classify_smtp: those it names, their neighbours,
\* and codes of the other reply classes.
ClassifyCodes ==
  {200, 220, 250, 251, 252, 354, 400, 421, 422, 450, 451, 452, 453, 500, 530,
   535, 550, 551, 552, 553, 554, 555, 599}

\* Every policy keyword in lower case, in capitals and in mixed case.
KeywordForms ==
  UNION {{POLICY_KEYWORDS[k], Upper(POLICY_KEYWORDS[k]),
          Alternate(POLICY_KEYWORDS[k])} : k \in 1..Len(POLICY_KEYWORDS)}

\* Messages given to classify_smtp: empty, without any keyword, with a
\* keyword broken by a blank or cut short, and every form of every keyword
\* alone and inside a sentence.
ClassifyMessages ==
  { <<>>,
    <<"G","o","n","e">>,
    <<"U","n","k","n","o","w","n"," ","u","s","e","r">>,
    <<"s","p"," ","a","m">>,
    <<"P","o","l","i","c">>,
    <<"n","o","t","p","e","r","m","i","t","t","e","d">>,
    <<"B","l","a","c","k"," ","l","i","s","t">> }
    \cup KeywordForms
    \cup {<<"5",".","7",".","1"," ">> \o f \o <<"!">> : f \in KeywordForms}

InitClassify ==
  /\ emails = <<>>
  /\ i = 1
  /\ pc = "classify"
  /\ domain_cache = EmptyMap
  /\ rows = <<>>
  /\ exit_code = -1
  /\ cur = NoCur
  /\ smtp = NoSession
  /\ pending = NoPending
  /\ smtp_result = NoResult
  /\ \E code \in ClassifyCodes, message \in ClassifyMessages :
       probe = [NoProbe EXCEPT !.reply = Reply(code, message)]
  /\ classified = 0
  /\ domains = <<>>
  /\ resolved = <<>>
  /\ dns_seen = EmptyMap
  /\ calls = <<>>
  /\ sessions = <<>>
  /\ sender = NoSender

\* classify_smtp(code, message) on the pair held in probe.reply; the result
\* is kept in smtp_result with the code and the message.
Classify ==
  /\ pc = "classify"
  /\ smtp_result' =
       SmtpCheckResult(classify_smtp(probe.reply.code, probe.reply.msg),
                       Str(probe.reply.code), probe.reply.msg)
  /\ classified' = classified + 1
  /\ pc' = "classified"
  /\ UNCHANGED <<emails, i, domain_cache, rows, exit_code, cur, smtp, pending,
                 probe, domains, resolved, dns_seen, calls, sessions>>
  /\ UNCHANGED sender

NextClassify == Classify

SpecClassify == InitClassify /\ [][NextClassify]_vars

\* ----------------------------------------------- check_domain_mx by itself

\* Most records in one answer.
MaxRecords == 3

\* MX records: three preferences; the null MX, a host with and without the
\* trailing dot, and a name of dots only.
RecordPool ==
  {Mx(preference, exchange) :
     preference \in {0, 10, 20},
     exchange \in {<<".">>, Host1 \o <<".">>, Host2, <<".", ".">>}}

\* Answers of up to MaxRecords records, in any order.
AnswerPool == UNION {[1..n -> RecordPool] : n \in 1..MaxRecords}

\* What resolver.resolve can do: any answer, any exception class.
ResolveOutcomes ==
  {[kind |-> "answer", records |-> a] : a \in AnswerPool}
    \cup {[kind |-> t, records |-> <<>>] : t \in DnsExceptionTypes}

\* The domain given to check_domain_mx.
QueriedDomain == <<"a", ".", "c", "c">>

InitResolve ==
  /\ emails = <<>>
  /\ i = 1
  /\ pc = "resolve"
  /\ domain_cache = EmptyMap
  /\ rows = <<>>
  /\ exit_code = -1
  /\ cur = NoCur
  /\ smtp = NoSession
  /\ pending = NoPending
  /\ smtp_result = NoResult
  /\ probe = NoProbe
  /\ classified = 0
  /\ domains = <<>>
  /\ resolved = <<>>
  /\ \E outcome \in ResolveOutcomes :
       dns_seen = CachePut(EmptyMap, QueriedDomain, outcome)
  /\ calls = <<>>
  /\ sessions = <<>>
  /\ sender = NoSender

\* check_domain_mx(domain, resolver), the resolver doing what dns_seen holds
\* for the domain; the result is kept in domain_cache.
Resolve ==
  /\ pc = "resolve"
  /\ domain_cache' = CachePut(domain_cache, QueriedDomain,
                              check_domain_mx(dns_seen[QueriedDomain]))
  /\ resolved' = Append(resolved, QueriedDomain)
  /\ pc' = "resolved"
  /\ UNCHANGED <<emails, i, rows, exit_code, cur, smtp, pending, smtp_result,
                 probe, classified, domains, dns_seen, calls, sessions>>
  /\ UNCHANGED sender

NextResolve == Resolve

SpecResolve == InitResolve /\ [][NextResolve]_vars

\* ------------------------------------- send_text.py: send_chunk_with_retry

\* Largest --max-retries given.
MaxRetries == 3

\* The state of email_check.py, which send_text.py does not touch.
emailVars ==
  <<emails, i, domain_cache, rows, exit_code, cur, smtp, pending, smtp_result,
    probe, classified, domains, resolved, dns_seen, calls, sessions>>

\* status_code of a TelegramAPIError: the HTTP status, or error_code of the
\* body; 200 is a reply that is not JSON or not "ok".
ApiStatusCodes == {200, 400, 403, 428, 429, 430, 499, 500, 503, 599, 600}

\* retry_after of a TelegramAPIError.
RetryAfters == {None, 0, 7}

\* What one call of telegram_api_post can do.
PostOutcomes ==
  {PostOutcome("ok", 200, None), PostOutcome("network", 0, None),
   PostOutcome("other", 0, None)}
    \cup {PostOutcome("api", status_code, retry_after) :
            status_code \in ApiStatusCodes, retry_after \in RetryAfters}

_is_retryable_api_error(exc) ==
  exc.status_code = 429 \/ (500 <= exc.status_code /\ exc.status_code <= 599)

\* 2 ** n
RECURSIVE Pow2(_)
Pow2(n) == IF n = 0 THEN 1 ELSE 2 * Pow2(n - 1)

_retry_delay_seconds(attempt_number, retry_after) ==
  IF retry_after # None THEN retry_after ELSE Pow2(attempt_number - 1)

\* Mutant: one retry more than max_retries.
RetriesExhausted_OffByOne(retries_used, max_retries) ==
  retries_used > max_retries

\* "retries_used >= max_retries"
RetriesExhausted(retries_used, max_retries) == retries_used >= max_retries

\* send_chunk_with_retry is called with max_retries, which validate_args
\* has found >= 0.
InitRetry ==
  /\ emails = <<>>
  /\ i = 1
  /\ pc = "post"
  /\ domain_cache = EmptyMap
  /\ rows = <<>>
  /\ exit_code = -1
  /\ cur = NoCur
  /\ smtp = NoSession
  /\ pending = NoPending
  /\ smtp_result = NoResult
  /\ probe = NoProbe
  /\ classified = 0
  /\ domains = <<>>
  /\ resolved = <<>>
  /\ dns_seen = EmptyMap
  /\ calls = <<>>
  /\ sessions = <<>>
  /\ \E max_retries \in 0..MaxRetries :
       sender = [NoSender EXCEPT !.max_retries = max_retries]

\* One turn of the while loop: attempt += 1, the call of telegram_api_post,
\* and then return, raise, or sleep and go round again.
Attempt ==
  /\ pc = "post"
  /\ \E outcome \in PostOutcomes :
       LET attempt == sender.attempt + 1
           retries_used == attempt - 1
           tried == [sender EXCEPT !.attempt = attempt, !.last = outcome]
           raise == /\ sender' = [tried EXCEPT !.raised = outcome]
                    /\ pc' = "raised"
           sleep(delay) == /\ sender' = [tried EXCEPT !.delays = Append(@, delay)]
                           /\ pc' = "post"
       IN IF outcome.kind = "ok"
            THEN /\ sender' = [tried EXCEPT !.result = attempt]
                 /\ pc' = "returned"
          ELSE IF outcome.kind = "api"
            THEN IF \/ ~_is_retryable_api_error(outcome)
                    \/ RetriesExhausted(retries_used, sender.max_retries)
                   THEN raise
                   ELSE sleep(_retry_delay_seconds(retries_used + 1,
                                                   outcome.retry_after))
          ELSE IF outcome.kind = "network"
            THEN IF RetriesExhausted(retries_used, sender.max_retries)
                   THEN raise
                   ELSE sleep(_retry_delay_seconds(retries_used + 1, None))
          ELSE raise
  /\ UNCHANGED emailVars

NextRetry == Attempt

\* The loop runs on: the HTTP call ends within its timeout and the sleep
\* ends after its delay.
SpecRetry == InitRetry /\ [][NextRetry]_vars /\ WF_vars(NextRetry)

\* ----------------------------------------- send_text.py: split_into_chunks

\* Longest text given.
MaxTextLen == 5

\* Largest limit given.
MaxLimit == 3

\* The characters of the texts: a letter and the two that occur in the
\* separators.
TextChars == {"a", " ", "\n"}

\* Texts of up to MaxTextLen characters.
Texts == UNION {[1..n -> TextChars] : n \in 0..MaxTextLen}

\* separators = ("\n\n", "\n", " ")
separators == << <<"\n", "\n">>, <<"\n">>, <<" ">> >>

\* str.rfind(sep): the highest index, from 0, at which sep occurs; -1 when
\* it does not occur.
RFind(s, sep) ==
  LET at == {pos \in 0..(Len(s) - Len(sep)) :
               SubSeq(s, pos + 1, pos + Len(sep)) = sep}
  IN IF at = {} THEN -1 ELSE SetMax(at)

\* Mutant: the separator is looked for in all that remains, not in the
\* window of limit characters.
SplitIndex_NoWindow(remaining, limit) ==
  LET found == {k \in 1..Len(separators) : RFind(remaining, separators[k]) > 0}
      split_index ==
        IF found = {} THEN -1
        ELSE RFind(remaining, separators[SetMin(found)])
               + Len(separators[SetMin(found)])
  IN IF split_index <= 0 THEN limit ELSE split_index

\* split_index of one turn of the loop: behind the last occurrence, past
\* index 0 of the window, of the first separator that has one; limit when
\* none has.
SplitIndex(remaining, limit) ==
  LET window == SubSeq(remaining, 1, limit)
      found == {k \in 1..Len(separators) : RFind(window, separators[k]) > 0}
      split_index ==
        IF found = {} THEN -1
        ELSE RFind(window, separators[SetMin(found)])
               + Len(separators[SetMin(found)])
  IN IF split_index <= 0 THEN limit ELSE split_index

\* split_into_chunks is called with a text and a limit > 0 (a limit <= 0
\* raises ValueError before the loop).
InitChunk ==
  /\ emails = <<>>
  /\ i = 1
  /\ pc = "split"
  /\ domain_cache = EmptyMap
  /\ rows = <<>>
  /\ exit_code = -1
  /\ cur = NoCur
  /\ smtp = NoSession
  /\ pending = NoPending
  /\ smtp_result = NoResult
  /\ probe = NoProbe
  /\ classified = 0
  /\ domains = <<>>
  /\ resolved = <<>>
  /\ dns_seen = EmptyMap
  /\ calls = <<>>
  /\ sessions = <<>>
  /\ \E text \in Texts, limit \in 1..MaxLimit :
       sender = [NoSender EXCEPT !.text = text, !.limit = limit,
                                 !.remaining = text]

\* One turn of "while remaining": the loop is over and chunks is returned
\* when nothing remains, or when what remains fits the limit and is
\* appended as the last chunk; otherwise a chunk of split_index characters
\* is cut off.
SplitTurn ==
  /\ pc = "split"
  /\ IF sender.remaining = <<>>
       THEN pc' = "chunked" /\ UNCHANGED sender
     ELSE IF Len(sender.remaining) <= sender.limit
       THEN /\ sender' = [sender EXCEPT !.chunks = Append(@, sender.remaining)]
            /\ pc' = "chunked"
     ELSE LET split_index == SplitIndex(sender.remaining, sender.limit)
              chunk == SubSeq(sender.remaining, 1, split_index)
          IN /\ sender' =
                  [sender EXCEPT
                     !.chunks = IF chunk # <<>> THEN Append(@, chunk) ELSE @,
                     !.remaining = SubSeq(sender.remaining, split_index + 1,
                                          Len(sender.remaining))]
             /\ pc' = "split"
  /\ UNCHANGED emailVars

NextChunk == SplitTurn

\* The loop runs on: a turn only computes.
SpecChunk == InitChunk /\ [][NextChunk]_vars /\ WF_vars(NextChunk)

\* ------------------------------------------------------------------ claims

\* smtp_probe has returned for address i and its row is not yet appended.
Returned == pc = "row"

\* The normalized domain of the address at position k, once main has
\* extracted it: NoDomain for an address that is malformed or whose domain
\* cannot be encoded.
DomainOf(k) == domains[k]

\* The address at position k is well-formed, its domain was resolved, and
\* the outcome is valid with at least one exchanger.
DomainOutcomeValid(k) ==
  /\ k \in 1..Len(domains)
  /\ DomainOf(k) # NoDomain
  /\ DomainOf(k) \in DOMAIN domain_cache
  /\ domain_cache[DomainOf(k)].status = DOMAIN_VALID
  /\ domain_cache[DomainOf(k)].mx_hosts # <<>>

\* C1: in every row, smtp_probe was called for the address if and only if
\* its domain outcome is valid with a non-empty exchanger list; every other
\* row has smtp_result "skipped" and smtp_code "-", and no SMTP connection
\* was attempted for its address.
C1_ProbedIffValid ==
  \A k \in 1..Len(rows) :
    /\ (k \in Range(calls)) <=> DomainOutcomeValid(k)
    /\ k \notin Range(calls) =>
         /\ rows[k].smtp_result = "skipped"
         /\ rows[k].smtp_code = NoCode
         /\ \A n \in 1..Len(sessions) : sessions[n].pos # k

\* C1 witness: a finished run with a probed row and a skipped row of a
\* resolved but absent domain.
C1_Witness ==
  /\ pc = "done"
  /\ \E k \in 1..Len(rows) : k \in Range(calls)
  /\ \E k \in 1..Len(rows) :
       k \notin Range(calls) /\ rows[k].domain_status = DOMAIN_ABSENT

\* C2: once the server has answered RCPT TO with status c and message m,
\* smtp_probe returns result classify_smtp(c, m), code c and detail m (or
\* "rcpt_response_empty" for an empty m), whatever happens while the session
\* is closed.
C2_RcptReplyDecides ==
  (Returned /\ probe.last = "rcpt") =>
    LET m == _decode_smtp_message(probe.reply.msg)
    IN /\ smtp_result.result = classify_smtp(probe.reply.code, m)
       /\ smtp_result.code = Str(probe.reply.code)
       /\ smtp_result.detail = IF m = <<>> THEN <<"rcpt_response_empty">> ELSE m

\* C3: an SMTPResponseException (other than SMTPConnectError) that reaches
\* the except clauses of smtp_probe is classified: the result is
\* classify_smtp(smtp_code, smtp_error) with that code, never
\* connection_error with "-".
C3_ResponseExceptionClassified ==
  (/\ Returned
   /\ pending.kind = "raise"
   /\ IsInstance(pending.exc, {"SMTPResponseException"})
   /\ ~IsInstance(pending.exc, {"SMTPConnectError"})) =>
    /\ smtp_result.result =
         classify_smtp(pending.exc.smtp_code,
                       _decode_smtp_message(pending.exc.smtp_error))
    /\ smtp_result.code = Str(pending.exc.smtp_code)
    /\ smtp_result.result # "connection_error"

\* The steps of smtp_probe at which a reply is awaited.
ProbeSteps == {"connect", "ehlo", "helo", "mail", "rcpt"}

\* The connections attempted for the address at position k.
SessionsOf(k) == {n \in 1..Len(sessions) : sessions[n].pos = k}

\* C4: a transport failure at the connection or while EHLO, HELO, MAIL FROM
\* or RCPT TO awaits its reply ends the probe with connection_error, code
\* "-" and the exception's class name as detail; classify_smtp is not
\* called, no command is sent after the failure and no second connection
\* is attempted.
C4_TransportFailure ==
  (Returned /\ probe.failed \in ProbeSteps) =>
    /\ pending.kind = "raise"
    /\ pending.exc.type \in TransportErrors
    /\ smtp_result =
         SmtpCheckResult("connection_error", NoCode, <<pending.exc.type>>)
    /\ classified = 0
    /\ Cardinality(SessionsOf(i)) = 1
    /\ probe.failed # "connect" =>
         /\ smtp.cmds[Len(smtp.cmds)] = probe.failed
         /\ Cardinality({n \in 1..Len(smtp.cmds) :
                           smtp.cmds[n] = probe.failed}) = 1

\* C4 witness: the transport failed while MAIL FROM awaited its reply, and
\* smtp_probe has returned.
C4_Witness == Returned /\ probe.failed = "mail"

\* How far main has come: every step of Next raises it, and it never
\* exceeds a bound fixed by the length of the batch.
Progress ==
  LET step == CASE pc = "main" -> 0 [] pc = "connect" -> 1 [] pc = "ehlo" -> 2
                [] pc = "helo" -> 3 [] pc = "mail" -> 4 [] pc = "rcpt" -> 5
                [] pc = "exit" -> 6 [] pc = "row" -> 7 [] OTHER -> 8
  IN IF pc \in {"done", "crashed"} THEN 9 * (Len(emails) + 1) + 1
     ELSE 9 * i + step

\* main can take a step: at the head of the loop there is a next address to
\* handle (the resolver always has some outcome) or the table to print;
\* inside smtp_probe the step at hand is enabled.
CanStep ==
  IF pc = "main"
    THEN DnsOutcomes # {} /\ i <= Len(emails) + 1
    ELSE ENABLED (Connect \/ Ehlo \/ Helo \/ Mail \/ Rcpt \/ SessionExit
                    \/ AppendRow)

\* What holds of main while it runs and once it has returned: the rows are
\* those of the addresses handled, in order; it can take a step until it
\* returns; it returns 0 with one row for every address.
RowsInOrder ==
  /\ Len(rows) = i - 1
  /\ Len(rows) <= Len(emails)
  /\ \A k \in 1..Len(rows) : rows[k].email = Strip(emails[k])
  /\ pc # "done" => CanStep
  /\ pc = "done" => exit_code = 0 /\ Len(rows) = Len(emails)

\* C5: main terminates with exit status 0 and exactly one row per address
\* given, in the order given, whatever the DNS and SMTP layers did: every
\* step makes progress towards a bound, main is never stuck before it
\* returns, and it returns 0 with the rows of all addresses in order.
C5_OneRowPerAddress ==
  RowsInOrder /\ [][Progress' > Progress /\ RowsInOrder']_vars

\* C5 witness: main returned after an address whose lookup raised an
\* exception of an unanticipated class and, after it, an address whose probe
\* ended in an unanticipated exception.
C5_Witness ==
  /\ pc = "done"
  /\ Len(rows) = 2
  /\ rows[1].details = <<"dns_error:", "RuntimeError">>
  /\ rows[2].smtp_result = "server_blocked"
  /\ rows[2].smtp_code = NoCode

\* C6: the resolver is called exactly once for each distinct normalized
\* domain among the well-formed addresses handled so far, whatever the
\* outcome, and all rows of one domain show the same domain status.
C6_OneResolutionPerDomain ==
  /\ Range(resolved) = Range(domains) \ {NoDomain}
  /\ Len(resolved) = Cardinality(Range(resolved))
  /\ \A k, l \in 1..Len(rows) :
       (DomainOf(k) = DomainOf(l) /\ DomainOf(k) # NoDomain) =>
         rows[k].domain_status = rows[l].domain_status

\* C6 witness: two addresses written differently share a domain whose one
\* lookup failed, and both rows are out.
C6_Witness ==
  /\ pc = "done"
  /\ Len(rows) = 2
  /\ emails[1] # emails[2]
  /\ Strip(emails[1]) # Strip(emails[2])
  /\ DomainOf(1) = DomainOf(2)
  /\ DomainOf(1) # NoDomain
  /\ Len(resolved) = 1
  /\ rows[2].details = <<"dns_timeout">>

\* C7: when smtp_probe returns, the socket of its SMTP session is closed,
\* on every path.
C7_SessionClosed == Returned => ~smtp.sock

\* C7 witness: smtp_probe returned after the reply to QUIT raised.
C7_Witness ==
  /\ Returned
  /\ smtp.cmds # <<>>
  /\ smtp.cmds[Len(smtp.cmds)] = "quit"
  /\ pending.kind = "raise"
  /\ pending.exc.type = "SMTPResponseException"

\* How often cmd was sent in the current session.
Sent(cmd) == Cardinality({n \in 1..Len(smtp.cmds) : smtp.cmds[n] = cmd})

\* C8: HELO is sent only after EHLO got a status >= 400, and at most once;
\* when HELO gets a status >= 400 too, smtp_probe returns server_blocked
\* with the HELO status as code and the rejection message in the detail, and
\* neither MAIL FROM nor RCPT TO is sent.
C8_HeloFallback ==
  /\ Sent("helo") <= 1
  /\ Sent("helo") = 1 => probe.ehlo >= 400
  /\ (Returned /\ probe.last = "helo" /\ probe.reply.code >= 400) =>
       /\ smtp_result.result = "server_blocked"
       /\ smtp_result.code = Str(probe.reply.code)
       /\ smtp_result.detail =
            <<"helo_rejected:">> \o _decode_smtp_message(probe.reply.msg)
       /\ Sent("mail") = 0
       /\ Sent("rcpt") = 0

\* C9: when MAIL FROM gets status c >= 400 and message m, RCPT TO is never
\* sent and smtp_probe returns result classify_smtp(c, m), code c and detail
\* "mail_from_rejected:" followed by m.
C9_MailFromRejected ==
  (Returned /\ probe.last = "mail" /\ probe.reply.code >= 400) =>
    LET m == _decode_smtp_message(probe.reply.msg)
    IN /\ Sent("rcpt") = 0
       /\ smtp_result.result = classify_smtp(probe.reply.code, m)
       /\ smtp_result.code = Str(probe.reply.code)
       /\ smtp_result.detail = <<"mail_from_rejected:">> \o m

\* The host of the first record, in answer order, whose preference is the
\* lowest among the records with a host.
LowestPreferenceHost(records) ==
  LET usable == {n \in 1..Len(records) : RStripDot(records[n].exchange) # <<>>}
      best == {n \in usable :
                 \A m \in usable : records[n].preference <= records[m].preference}
  IN RStripDot(records[SetMin(best)].exchange)

\* C10: every address whose domain resolved valid gets exactly one call of
\* smtp_probe and one connection, to the exchanger of lowest preference of
\* its domain's answer; no address ever has a second connection, also after
\* connection_error and also when addresses share a domain.
C10_OneSessionPerAddress ==
  \A k \in 1..Len(emails) :
    /\ Cardinality(SessionsOf(k)) <= 1
    /\ (k \in 1..Len(rows) /\ DomainOutcomeValid(k)) =>
         /\ Cardinality(SessionsOf(k)) = 1
         /\ Cardinality({n \in 1..Len(calls) : calls[n] = k}) = 1
         /\ \A n \in SessionsOf(k) :
              sessions[n].host =
                LowestPreferenceHost(dns_seen[DomainOf(k)].records)

\* C10 witness: two addresses of one domain, whose answer lists the
\* exchangers out of order, each had its own connection, and the first
\* probe ended in connection_error.
C10_Witness ==
  /\ pc = "done"
  /\ Len(rows) = 2
  /\ DomainOf(1) = DomainOf(2)
  /\ DomainOutcomeValid(1)
  /\ Len(dns_seen[DomainOf(1)].records) = 2
  /\ dns_seen[DomainOf(1)].records[1].preference
       > dns_seen[DomainOf(1)].records[2].preference
  /\ rows[1].smtp_result = "connection_error"
  /\ Len(sessions) = 2

\* C11: when the transport raises SMTPRecipientsRefused carrying the status
\* and message the server gave for the probed address, smtp_probe returns
\* what the recipient step returns for that status and message: the same
\* result, code and detail ("rcpt_response_empty" for an empty message),
\* never connection_error.
C11_RefusedAsRecipientStep ==
  (/\ Returned
   /\ pending.kind = "raise"
   /\ pending.exc.type = "SMTPRecipientsRefused"
   /\ Refused(pending.exc, cur.email) # {}) =>
    \A r \in Refused(pending.exc, cur.email) :
      /\ smtp_result = RcptAnswered(Reply(r.code, r.msg))
      /\ smtp_result.result # "connection_error"

\* The keywords the classifier is said to look for.
ClaimedKeywords ==
  { <<"p","o","l","i","c","y">>, <<"s","p","a","m">>, <<"r","e","l","a","y">>,
    <<"b","l","o","c","k","e","d">>, <<"d","e","n","i","e","d">>,
    <<"b","l","a","c","k","l","i","s","t">>,
    <<"a","u","t","h","e","n","t","i","c","a","t","i","o","n">>,
    <<"n","o","t"," ","p","e","r","m","i","t","t","e","d">>,
    <<"a","c","c","e","s","s"," ","d","e","n","i","e","d">> }

\* The word occurs in the message, each letter in either case.
ContainsAnyCase(message, word) ==
  \E at \in 0..(Len(message) - Len(word)) :
    \A k \in 1..Len(word) : message[at + k] \in {word[k], ToUpper(word[k])}

\* classify_smtp has been applied to probe.reply.
Classified == pc = "classified"

\* C12: for the codes 550, 551 and 553 classify_smtp returns server_blocked
\* when the message contains one of the nine policy keywords in any letter
\* case, and not_exists when it contains none.
C12_PolicyKeywords ==
  (Classified /\ probe.reply.code \in {550, 551, 553}) =>
    smtp_result.result =
      IF \E word \in ClaimedKeywords : ContainsAnyCase(probe.reply.msg, word)
        THEN "server_blocked" ELSE "not_exists"

\* C12 witness: code 551 with a sentence holding "BlAcKlIsT" was classified
\* server_blocked.
C12_Witness ==
  /\ Classified
  /\ probe.reply.code = 551
  /\ probe.reply.msg =
       <<"5",".","7",".","1"," ","B","l","A","c","K","l","I","s","T","!">>
  /\ smtp_result.result = "server_blocked"

\* What the code alone decides outside 550, 551 and 553.
ByCodeAlone(code) ==
  IF code \in {250, 251} THEN "exists_likely"
  ELSE IF code \in {421, 450, 451, 452} THEN "temp_fail"
  ELSE "server_blocked"

\* C13: for every code outside 550, 551 and 553 the result of classify_smtp
\* is decided by the code alone, whatever the message: exists_likely for 250
\* and 251, temp_fail for 421, 450, 451 and 452, server_blocked for every
\* other code; and classify_smtp never returns connection_error or skipped.
C13_CodeAlone ==
  Classified =>
    /\ probe.reply.code \notin {550, 551, 553} =>
         smtp_result.result = ByCodeAlone(probe.reply.code)
    /\ smtp_result.result \notin {"connection_error", "skipped"}

\* C13 witness: code 450 with the message "SPAM" was classified temp_fail.
C13_Witness ==
  /\ Classified
  /\ probe.reply.code = 450
  /\ probe.reply.msg = <<"S","P","A","M">>
  /\ smtp_result.result = "temp_fail"

\* check_domain_mx has returned; what the resolver did and what it returned.
Resolved == pc = "resolved"

Outcome == dns_seen[QueriedDomain]

Result == domain_cache[QueriedDomain]

\* The records of the answer whose hostname is not empty once the trailing
\* dots are gone.
Usable(records) ==
  {n \in 1..Len(records) : RStripDot(records[n].exchange) # <<>>}

\* C14: check_domain_mx returns DOMAIN_VALID exactly with a non-empty list
\* of non-empty hostnames; an answer all of whose records are discarded
\* gives MX_INVALID with an empty list.
C14_ValidIffExchangers ==
  Resolved =>
    /\ Result.status = DOMAIN_VALID <=> Result.mx_hosts # <<>>
    /\ \A k \in 1..Len(Result.mx_hosts) : Result.mx_hosts[k] # <<>>
    /\ (Outcome.kind = "answer" /\ Usable(Outcome.records) = {}) =>
         Result.status = MX_INVALID /\ Result.mx_hosts = <<>>

\* C14 witness: the answer held the null MX alone and the outcome is
\* MX_INVALID.
C14_Witness ==
  /\ Resolved
  /\ Outcome.kind = "answer"
  /\ Outcome.records = <<Mx(0, <<".">>)>>
  /\ Result.status = MX_INVALID

\* The place of record n among the usable records: after every usable
\* record of lower preference and every earlier one of equal preference.
Rank(records, n) ==
  1 + Cardinality({m \in Usable(records) :
                     \/ records[m].preference < records[n].preference
                     \/ /\ records[m].preference = records[n].preference
                        /\ m < n})

\* C15: for an answer, mx_hosts holds exactly the usable records' hostnames,
\* in ascending preference, records of equal preference in answer order.
C15_SortedStable ==
  (Resolved /\ Outcome.kind = "answer") =>
    LET records == Outcome.records
    IN /\ Len(Result.mx_hosts) = Cardinality(Usable(records))
       /\ \A n \in Usable(records) :
            Result.mx_hosts[Rank(records, n)] = RStripDot(records[n].exchange)

\* C15 witness: three records, the first of the highest preference, the
\* other two of equal preference; the list has the two equal ones first, in
\* answer order.
C15_Witness ==
  /\ Resolved
  /\ Outcome.kind = "answer"
  /\ Outcome.records =
       <<Mx(20, Host1 \o <<".">>), Mx(10, Host2), Mx(10, Host1 \o <<".">>)>>
  /\ Result.mx_hosts = <<Host2, Host1, Host1>>

\* The failure classes that are told apart: the two timeouts are one class,
\* every exception class without a clause of its own is "other".
FailureClass(type) ==
  IF type \in {"Timeout", "LifetimeTimeout"} THEN "timeout"
  ELSE IF type \in {"NXDOMAIN", "NoAnswer", "NoNameservers", "YXDOMAIN",
                    "NoResolverConfiguration"} THEN type
  ELSE "other"

\* C16: the status is DOMAIN_ABSENT exactly when the resolver raised
\* NXDOMAIN, and the detail is then "NXDOMAIN"; every other exception gives
\* MX_INVALID with an empty list and a detail that no other failure class
\* gives.
C16_AbsentIffNxdomain ==
  Resolved =>
    /\ Result.status = DOMAIN_ABSENT <=> Outcome.kind = "NXDOMAIN"
    /\ Outcome.kind = "NXDOMAIN" => Result.detail = <<"NXDOMAIN">>
    /\ Outcome.kind \notin {"answer", "NXDOMAIN"} =>
         /\ Result.status = MX_INVALID
         /\ Result.mx_hosts = <<>>
         /\ \A other \in DnsExceptionTypes :
              FailureClass(other) # FailureClass(Outcome.kind) =>
                check_domain_mx([kind |-> other, records |-> <<>>]).detail
                  # Result.detail

\* C16 witness: the resolver raised LifetimeTimeout and the outcome is
\* MX_INVALID with the timeout token.
C16_Witness ==
  /\ Resolved
  /\ Outcome.kind = "LifetimeTimeout"
  /\ Result.status = MX_INVALID
  /\ Result.detail = <<"dns_timeout">>

\* The address has the form EMAIL_RE asks for, and a label of its domain is
\* too long to be IDNA-encoded.
OverlongLabel(s) ==
  /\ is_valid_email(s)
  /\ LET at == SetMax({k \in 1..Len(s) : s[k] = "@"})
         labels == Split(SubSeq(s, at + 1, Len(s)), ".")
     IN \E k \in 1..Len(labels) : Len(labels[k]) >= IdnaLabelLimit

\* C17: when the address at hand fails the syntax check after trimming, or
\* its domain cannot be IDNA-encoded, the step of main resolves nothing,
\* calls no probe, opens no session, leaves the domain cache as it is, and
\* appends the row (trimmed address, MX_INVALID, "skipped", "-", detail),
\* the detail being invalid_email_format or invalid_domain respectively.
C17_InvalidAddressFrame ==
  [][(/\ pc = "main"
      /\ i <= Len(emails)
      /\ \/ ~is_valid_email(Strip(emails[i]))
         \/ OverlongLabel(Strip(emails[i]))) =>
       /\ resolved' = resolved
       /\ dns_seen' = dns_seen
       /\ domain_cache' = domain_cache
       /\ calls' = calls
       /\ sessions' = sessions
       /\ smtp' = smtp
       /\ pc' = "main"
       /\ rows' = Append(rows,
                    [email |-> Strip(emails[i]),
                     domain_status |-> MX_INVALID,
                     smtp_result |-> "skipped",
                     smtp_code |-> <<"-">>,
                     details |-> IF ~is_valid_email(Strip(emails[i]))
                                   THEN <<"invalid_email_format">>
                                   ELSE <<"invalid_domain">>])]_vars

\* C17 witness: main returned after an address without "@" and an address
\* with an overlong label; nothing was resolved and nothing was probed.
C17_Witness ==
  /\ pc = "done"
  /\ Len(rows) = 2
  /\ rows[1].details = <<"invalid_email_format">>
  /\ rows[1].email = <<"u","a",".","c","c">>
  /\ rows[2].details = <<"invalid_domain">>
  /\ resolved = <<>>
  /\ domain_cache = EmptyMap
  /\ sessions = <<>>

\* The two orders in which a whole session sends its commands.
CommandOrders ==
  {<<"ehlo", "mail", "rcpt">>, <<"ehlo", "helo", "mail", "rcpt">>}

Prefixes(s) == {SubSeq(s, 1, n) : n \in 0..Len(s)}

\* The commands of the session without the closing QUIT.
BeforeClose(cmds) ==
  IF cmds # <<>> /\ cmds[Len(cmds)] = "quit"
    THEN SubSeq(cmds, 1, Len(cmds) - 1) ELSE cmds

\* C18: the commands sent in a session are a prefix of EHLO, optional HELO,
\* MAIL FROM, RCPT TO, followed by nothing but the closing QUIT: none is
\* sent twice or out of order, RCPT TO at most once, nothing but the close
\* after it, and DATA never; once QUIT is sent the probe is over.
C18_CommandOrder ==
  /\ BeforeClose(smtp.cmds) \in UNION {Prefixes(order) : order \in CommandOrders}
  /\ Sent("rcpt") <= 1
  /\ "data" \notin Range(smtp.cmds)
  /\ "quit" \in Range(smtp.cmds) => Returned

\* C18 witness: a whole session with the HELO fallback, closed after RCPT TO.
C18_Witness ==
  /\ Returned
  /\ smtp.cmds = <<"ehlo", "helo", "mail", "rcpt", "quit">>

\* The digits of the codes that go with a result.
CodesOf(codes) == {Str(code) : code \in codes}

\* C19: in every row the result and the code agree: exists_likely only with
\* 250 or 251, not_exists only with 550, 551 or 553, temp_fail only with
\* 421, 450, 451 or 452, connection_error and skipped only with "-".
C19_ResultMatchesCode ==
  \A k \in 1..Len(rows) :
    /\ rows[k].smtp_result = "exists_likely" =>
         rows[k].smtp_code \in CodesOf({250, 251})
    /\ rows[k].smtp_result = "not_exists" =>
         rows[k].smtp_code \in CodesOf({550, 551, 553})
    /\ rows[k].smtp_result = "temp_fail" =>
         rows[k].smtp_code \in CodesOf({421, 450, 451, 452})
    /\ rows[k].smtp_result \in {"connection_error", "skipped"} =>
         rows[k].smtp_code = <<"-">>

\* C19 witness: main returned with a not_exists row from a rejected MAIL
\* FROM and a connection_error row from a refused greeting.
C19_Witness ==
  /\ pc = "done"
  /\ Len(rows) = 2
  /\ rows[1].smtp_result = "not_exists"
  /\ rows[1].smtp_code = <<"5", "5", "0">>
  /\ Contains(rows[1].details, <<"mail_from_rejected:">>)
  /\ rows[2].smtp_result = "connection_error"
  /\ Contains(rows[2].details, <<"SMTPConnectError">>)

\* An API error that is worth another attempt: status 429 or 500 to 599.
RetryableStatus(status_code) ==
  status_code = 429 \/ status_code \in 500..599

\* send_chunk_with_retry is over: it returned or an exception left it.
RetryOver == pc \in {"returned", "raised"}

\* C20: send_chunk_with_retry ends, after at most max_retries + 1 attempts;
\* it returns the number of the attempt that first succeeded; an attempt
\* after the first is made only when the one before ended in a network
\* error or a retryable API error and fewer than max_retries retries were
\* used; an API error that is not retryable leaves at once.
C20_BoundedRetry ==
  /\ [](/\ sender.attempt <= sender.max_retries + 1
        /\ pc = "returned" =>
             sender.result = sender.attempt /\ sender.last.kind = "ok"
        /\ sender.last.kind = "ok" => pc = "returned"
        /\ (/\ sender.last.kind = "api"
            /\ ~RetryableStatus(sender.last.status_code)) =>
             pc = "raised" /\ sender.raised = sender.last)
  /\ [][sender'.attempt # sender.attempt =>
          /\ sender'.attempt = sender.attempt + 1
          /\ ~RetryOver
          /\ sender.attempt >= 1 =>
               /\ \/ sender.last.kind = "network"
                  \/ /\ sender.last.kind = "api"
                     /\ RetryableStatus(sender.last.status_code)
               /\ sender.attempt - 1 < sender.max_retries]_vars
  /\ <>RetryOver

\* C20 witness: with max_retries 3 the fourth attempt succeeded, after a
\* network error, a 429 with retry_after 7 and a 503.
C20_Witness ==
  /\ pc = "returned"
  /\ sender.max_retries = 3
  /\ sender.result = 4
  /\ sender.delays = <<1, 7, 4>>

\* The chunks joined in order.
RECURSIVE Joined(_)
Joined(chunks) ==
  IF chunks = <<>> THEN <<>> ELSE Head(chunks) \o Joined(Tail(chunks))

\* split_into_chunks has returned.
Chunked == pc = "chunked"

\* C21: for every text and every limit > 0 split_into_chunks returns; every
\* chunk it returns is non-empty and at most limit characters long; the
\* chunks joined in order are the text; an empty text gives no chunk.
C21_ChunksPartitionText ==
  /\ [](Chunked =>
         /\ \A k \in 1..Len(sender.chunks) :
              /\ sender.chunks[k] # <<>>
              /\ Len(sender.chunks[k]) <= sender.limit
         /\ Joined(sender.chunks) = sender.text
         /\ sender.text = <<>> => sender.chunks = <<>>)
  /\ <>Chunked

\* C21 witness: "a a\na" with limit 2 came back as "a ", "a\n", "a":
\* cut behind a blank, behind a newline, and the rest.
C21_Witness ==
  /\ Chunked
  /\ sender.limit = 2
  /\ sender.text = <<"a", " ", "a", "\n", "a">>
  /\ sender.chunks = << <<"a", " ">>, <<"a", "\n">>, <<"a">> >>

====
